---- MODULE Spec2Model ----
(***************************************************************************)
(* A model of scripts/txt2img.py (one run of main: start-up, the           *)
(* generation loop, the preview flush, the safety filter, the sample and   *)
(* grid files) and of scripts/make_video.py (the two write_video calls).   *)
(***************************************************************************)
EXTENDS Integers, Sequences, FiniteSets, TLC

VARIABLES
    opt,            \* the parsed command line (argparse namespace)
    env,            \* what is outside the script: directory contents, asset, models
    pc,             \* position of main
    data,           \* the list of prompt batches
    n, bi,          \* outer iteration (trange) and index into data (0-based)
    base_count, grid_count,
    start_code, randnCalls,
    xT_seen, samplerCalls,
    step,           \* callbacks made by the running sampler invocation
    processList, process2List,
    fs,             \* samples / process / process2: names present, and what the run
                    \* wrote there (writes, names written, names overwritten)
    lastFrames,     \* what the latest saveImages wrote, per preview directory
    batch,          \* the latest batch: decode, classifier output, verdicts, checked images
    lastSaved,      \* the sample files the latest batch wrote
    all_samples,    \* the grid buffer
    gridWrites,     \* grid files written
    vid             \* make_video.py: folders, position, writers

mainVars == <<opt, env, pc, data, n, bi, base_count, grid_count, start_code,
              randnCalls, xT_seen, samplerCalls, step, processList, process2List,
              fs, lastFrames, batch, lastSaved,
              all_samples, gridWrites>>
vars == <<mainVars, vid>>

---------------------------------------------------------------------------
\* Bounds of the model.
MaxIter == 2        \* --n_iter ranges over 0..MaxIter
MaxSamples == 2     \* --n_samples ranges over 1..MaxSamples
MaxLines == 3       \* a prompt file has 0..MaxLines lines
MaxSteps == 2       \* a sampler invocation makes 0..MaxSteps callbacks
MaxPre == 1         \* counter-like names a directory may hold at start-up
MaxFiles == 2       \* entries of a folder read by write_video

\* Program constants.
SampleWidth == 5    \* f"{base_count:05}.png", f"{counter:05}.png"
GridWidth == 4      \* f'grid-{grid_count:04}.png'
Fps == 5            \* cv2.VideoWriter(video_name, 0, 5, ...)
LatentC == 4        \* --C default
DownF == 8          \* --f default

\* Python's None where a tensor may stand: the tensor of no draw.
None == [draw |-> 0, shape |-> <<>>]
\* No batch post-processed yet.
NoBatch == [call |-> 0]
Dirs == {"samples", "process", "process2"}

---------------------------------------------------------------------------
\* Sequence helpers.
Take(s, k) == SubSeq(s, 1, IF k < Len(s) THEN k ELSE Len(s))
Drop(s, k) == SubSeq(s, (IF k < Len(s) THEN k ELSE Len(s)) + 1, Len(s))

RECURSIVE Digits(_)
\* the decimal digits of a natural number, most significant first
Digits(k) == IF k < 10 THEN <<k>> ELSE Append(Digits(k \div 10), k % 10)

RECURSIVE ZeroPad(_, _)
ZeroPad(ds, width) == IF Len(ds) >= width THEN ds ELSE ZeroPad(<<0>> \o ds, width)

\* format spec "0<width>": at least width digits, zero-filled on the left
Fmt(k, width) == ZeroPad(Digits(k), width)

\* f"{k:05}.png": a file name is a prefix, a digit string and a suffix
PngName(k) == [pre |-> "", num |-> Fmt(k, SampleWidth), ext |-> ".png"]
\* f'grid-{k:04}.png'
GridName(k) == [pre |-> "grid-", num |-> Fmt(k, GridWidth), ext |-> ".png"]
\* a name no counter produces
OtherName == [pre |-> "notes", num |-> <<>>, ext |-> ".txt"]

---------------------------------------------------------------------------
\* chunk(it, size): tuples of `size` items taken in order until an empty tuple
\* is drawn (islice of an exhausted iterator, or size = 0).
RECURSIVE chunk(_, _)
chunk(it, size) ==
    LET t == Take(it, size)
    IN  IF t = <<>> THEN <<>> ELSE <<t>> \o chunk(Drop(it, size), size)

\* A prompt: the --prompt text, or a line of the --from-file file.
CliPrompt == [src |-> "cli", no |-> 0]
FileLine(i) == [src |-> "file", no |-> i]

\* The list of prompt batches main builds.
FileData(lines, batch_size) == chunk(lines, batch_size)
PromptData(o, lines) ==
    IF ~o.from_file
    THEN << [i \in 1..o.n_samples |-> CliPrompt] >>
    ELSE FileData(lines, o.n_samples)

---------------------------------------------------------------------------
\* Images. A decoded image is an H x W x 3 array, here its content and its shape.
Image(px, h, w) == [px |-> px, h |-> h, w |-> w]
Shape(x) == <<x.h, x.w>>

\* assets/rick.jpeg as opened and converted to RGB, at its own size.
Asset == Image("rick", "native", "native")

\* PIL's Image.resize(size), size = (width, height): same picture, new shape.
Resize(img, size) == Image(img.px, size[2], size[1])

\* The size load_replacement asks for: (hwc[1], hwc[0]).
ReplacementSize_Swapped(x) == <<x.h, x.w>>
ReplacementSize(x) == <<x.w, x.h>>

\* load_replacement(x): the placeholder resized to x's shape; x itself when
\* anything in the try block raises (asset not openable, shape assertion).
LoadReplacement_Zeros(x, asset_ok) ==
    IF asset_ok /\ Shape(Resize(Asset, ReplacementSize(x))) = Shape(x)
    THEN Resize(Asset, ReplacementSize(x))
    ELSE Image("black", x.h, x.w)
LoadReplacement(x, asset_ok) ==
    IF ~asset_ok
    THEN x
    ELSE LET y == Resize(Asset, ReplacementSize(x))
         IN  IF Shape(y) = Shape(x) THEN y ELSE x

\* check_safety, after the classifier has run: its loop over the verdicts and
\* the pair it returns.
CheckSafety(x_checked_image, has_nsfw_concept, asset_ok) ==
    [x_checked_image |->
        [i \in 1..Len(has_nsfw_concept) |->
            IF has_nsfw_concept[i]
            THEN LoadReplacement(x_checked_image[i], asset_ok)
            ELSE x_checked_image[i]],
     has_nsfw_concept |-> has_nsfw_concept]

\* What the safety classifier may return for decoded images xs: a verdict per
\* image and an image per verdict; an unflagged image comes back as it went
\* in, a flagged one as it went in or blacked out (library dependent).
ClassifierResults(xs, flaggable) ==
    { r \in [out : [1..Len(xs) -> {xs[i] : i \in 1..Len(xs)}
                                  \cup {Image("black", xs[i].h, xs[i].w) : i \in 1..Len(xs)}],
             nsfw : [1..Len(xs) -> IF flaggable THEN BOOLEAN ELSE {FALSE}]] :
        \A i \in 1..Len(xs) :
            /\ r.out[i] \in {xs[i], Image("black", xs[i].h, xs[i].w)}
            /\ ~r.nsfw[i] => r.out[i] = xs[i] }

\* An image file: 255 * x as uint8, watermarked or not.
ImageFile(name, x, wm) == [name |-> name, img |-> x, wm |-> wm]

---------------------------------------------------------------------------
\* A directory the run writes image files into.
NewDir(present) == [present |-> present, count |-> 0, written |-> {}, clobbered |-> {}]

\* img.save(path): creates the file or replaces the one of that name.
Save(d, name) ==
    [present   |-> d.present \cup {name},
     count     |-> d.count + 1,
     written   |-> d.written \cup {name},
     clobbered |-> IF name \in d.present THEN d.clobbered \cup {name} ELSE d.clobbered]

RECURSIVE SaveAll(_, _)
SaveAll(d, names) ==
    IF names = <<>> THEN d ELSE SaveAll(Save(d, Head(names)), Tail(names))

---------------------------------------------------------------------------
\* The run configurations and surroundings a specification starts from.
Bool == BOOLEAN
Lines(k) == [i \in 1..k |-> FileLine(i)]
\* What samples/ may hold at start-up: the files 0..k-1 of earlier runs, one
\* file left of an earlier run, or a file of another kind.
PreSets ==
    {{PngName(j) : j \in 0..(k - 1)} : k \in 0..MaxPre}
        \cup {{PngName(k)} : k \in 1..MaxPre} \cup {{OtherName}}

Options(iters, fixed, heights, widths) ==
    [skip_save : Bool, skip_grid : Bool, fixed_code : fixed,
     n_iter : iters, n_samples : 1..MaxSamples, from_file : Bool,
     H : heights, W : widths]

\* samples, process: the names in samples/ and in each preview directory;
\* outExtra: entries of the output directory besides the three subdirectories;
\* lines: the prompt file; steps: the callbacks the selected sampler makes in
\* one invocation (one per denoising step, none for a sampler that ignores
\* img_callback); asset_ok: assets/rick.jpeg opens; decodable: the pictures
\* the decoder can produce; flaggable: whether the classifier flags anything.
Surroundings(pres, previews, files, steps, assets, pixels, flags) ==
    [samples : pres, process : previews, outExtra : {0},
     lines : {Lines(k) : k \in files}, steps : steps,
     asset_ok : assets, decodable : pixels, flaggable : flags]

\* make_video.py not running.
NoVideo == [pc |-> "off", folders |-> <<>>, writers |-> <<>>]

InitVars(options, surroundings, at, videos) ==
    /\ opt \in options
    /\ env \in surroundings
    /\ ~opt.from_file => env.lines = Lines(0)
    /\ pc = at
    /\ data = <<>>
    /\ n = 0 /\ bi = 0
    /\ base_count = 0 /\ grid_count = 0
    /\ start_code = None /\ randnCalls = 0
    /\ xT_seen = {} /\ samplerCalls = 0
    /\ step = 0
    /\ processList = <<>> /\ process2List = <<>>
    /\ fs = [d \in Dirs |-> NewDir({})]
    /\ lastFrames = [d \in {"process", "process2"} |-> <<>>]
    /\ batch = NoBatch
    /\ lastSaved = <<>>
    /\ all_samples = <<>>
    /\ gridWrites = <<>>
    /\ vid \in videos

InitMain(options, surroundings) == InitVars(options, surroundings, "start", {NoVideo})

---------------------------------------------------------------------------
\* main, lines 271-299: the prompt batches, the output directories, the
\* counters and the start code.
\* torch.randn: the k-th draw of the run is a value of its own.
Randn(k, shape) == [draw |-> k, shape |-> shape]
LatentShape == <<LatentC, opt.H \div DownF, opt.W \div DownF>>
StartCodeShape == <<opt.n_samples>> \o LatentShape

BaseCountInit_OffByOne == Cardinality(env.samples) - 1
BaseCountInit == Cardinality(env.samples)
\* os.listdir(outpath) lists the three subdirectories and whatever else is there
GridCountInit == (Cardinality(Dirs) + env.outExtra) - 1

LoopDone(nn) == nn >= opt.n_iter \/ Len(data) = 0
LoopDoneWith(nn, dd) == nn >= opt.n_iter \/ Len(dd) = 0

Startup ==
    /\ pc = "start"
    /\ data' = PromptData(opt, env.lines)
    /\ fs' = [d \in Dirs |-> NewDir(IF d = "samples" THEN env.samples ELSE env.process)]
    /\ base_count' = BaseCountInit
    /\ grid_count' = GridCountInit
    /\ IF opt.fixed_code
       THEN /\ start_code' = Randn(randnCalls + 1, StartCodeShape)
            /\ randnCalls' = randnCalls + 1
       ELSE UNCHANGED <<start_code, randnCalls>>
    /\ pc' = IF LoopDoneWith(0, data') THEN "grid" ELSE "loop"
    /\ UNCHANGED <<opt, env, n, bi, xT_seen, samplerCalls, step, processList,
                   process2List, lastFrames, batch, lastSaved, all_samples,
                   gridWrites, vid>>

---------------------------------------------------------------------------
\* The generation loop, lines 311-419.
Prompts == data[bi + 1]

\* sampler.sample(..., x_T=start_code)
SamplerXT_Fresh ==
    IF opt.fixed_code THEN Randn(randnCalls + samplerCalls + 1, StartCodeShape) ELSE None
SamplerXT == start_code

SamplerCall ==
    /\ pc = "loop"
    /\ pc' = "sampling"
    /\ xT_seen' = xT_seen \cup {SamplerXT}
    /\ samplerCalls' = samplerCalls + 1
    /\ step' = 0
    /\ UNCHANGED <<opt, env, data, n, bi, base_count, grid_count, start_code,
                   randnCalls, processList, process2List, fs, lastFrames, batch,
                   lastSaved, all_samples, gridWrites, vid>>

\* A latent of the running invocation handed to the callback.
Snapshot(trace) ==
    [call |-> samplerCalls, step |-> step, trace |-> trace, size |-> opt.n_samples]

\* save_step(prev, imgx0, i), called by the sampler once per denoising step
SaveStep ==
    /\ pc = "sampling"
    /\ step < env.steps
    /\ processList' = Append(processList, Snapshot("prev"))
    /\ process2List' = Append(process2List, Snapshot("x0"))
    /\ step' = step + 1
    /\ UNCHANGED <<opt, env, pc, data, n, bi, base_count, grid_count, start_code,
                   randnCalls, xT_seen, samplerCalls, fs, lastFrames, batch,
                   lastSaved, all_samples, gridWrites, vid>>

SamplerReturn ==
    /\ pc = "sampling"
    /\ step = env.steps
    /\ pc' = "flush"
    /\ UNCHANGED <<opt, env, data, n, bi, base_count, grid_count, start_code,
                   randnCalls, xT_seen, samplerCalls, step, processList,
                   process2List, fs, lastFrames, batch, lastSaved, all_samples,
                   gridWrites, vid>>

\* The sampler is asked for batch_size = n_samples latents whatever the number
\* of prompts; with fewer conditionings than that it may raise, and nothing
\* in main catches it.
SamplerRaise ==
    /\ pc = "sampling"
    /\ Len(Prompts) # opt.n_samples
    /\ pc' = "sampler_failed"
    /\ UNCHANGED <<opt, env, data, n, bi, base_count, grid_count, start_code,
                   randnCalls, xT_seen, samplerCalls, step, processList,
                   process2List, fs, lastFrames, batch, lastSaved, all_samples,
                   gridWrites, vid>>

\* saveImages(): every snapshot decoded to a batch of images, each image
\* saved under the next value of a counter that starts at 0.
PreviewCounterStart == 0
Frames(list) ==
    LET total == IF list = <<>> THEN 0 ELSE Len(list) * list[1].size
    IN  [k \in 1..total |->
            LET snap == list[((k - 1) \div list[1].size) + 1]
            IN  [name |-> PngName(PreviewCounterStart + (k - 1)),
                 snap |-> snap,
                 elem |-> (k - 1) % snap.size,
                 wm   |-> FALSE]]
FrameNames(frames) == [k \in DOMAIN frames |-> frames[k].name]

ProcessListAfterFlush == <<>>
Process2ListAfterFlush_Kept == process2List
Process2ListAfterFlush == <<>>

SaveImages ==
    /\ pc = "flush"
    /\ LET f2 == Frames(process2List)
           f1 == Frames(processList)
       IN  /\ fs' = [fs EXCEPT !["process2"] = SaveAll(@, FrameNames(f2)),
                               !["process"] = SaveAll(@, FrameNames(f1))]
           /\ lastFrames' = [process |-> f1, process2 |-> f2]
    /\ processList' = ProcessListAfterFlush
    /\ process2List' = Process2ListAfterFlush
    /\ pc' = "decode"
    /\ UNCHANGED <<opt, env, data, n, bi, base_count, grid_count, start_code,
                   randnCalls, xT_seen, samplerCalls, step, batch, lastSaved,
                   all_samples, gridWrites, vid>>

\* model.decode_first_stage on the final latent: n_samples images of the
\* requested size, whatever the checkpoint and the prompts make of them.
DecodedH == DownF * (opt.H \div DownF)
DecodedW == DownF * (opt.W \div DownF)
Decodes ==
    { [i \in 1..opt.n_samples |-> Image(px[i], DecodedH, DecodedW)] :
        px \in [1..opt.n_samples -> env.decodable] }

\* if not opt.skip_save / if not opt.skip_grid
SavesSamples_Always == TRUE
SavesSamples == ~opt.skip_save
SavesGrid == ~opt.skip_grid

SampleNames(count, k) == [i \in 1..k |-> PngName(count + (i - 1))]

\* lines 397-419: decode, check_safety, the sample files, the grid buffer,
\* and on to the next batch.
PostProcess ==
    /\ pc = "decode"
    /\ \E x_samples_ddim \in Decodes :
       \E r \in ClassifierResults(x_samples_ddim, env.flaggable) :
          LET checked == CheckSafety(r.out, r.nsfw, env.asset_ok)
              x_checked_image == checked.x_checked_image
              names == SampleNames(base_count, Len(x_checked_image))
          IN  /\ batch' = [call |-> samplerCalls, prompts |-> Prompts,
                           decode |-> x_samples_ddim, classified |-> r.out,
                           verdicts |-> r.nsfw,
                           has_nsfw_concept |-> checked.has_nsfw_concept,
                           x_checked_image |-> x_checked_image]
              /\ IF SavesSamples
                 THEN /\ fs' = [fs EXCEPT !["samples"] = SaveAll(@, names)]
                      /\ lastSaved' = [i \in DOMAIN names |->
                                          ImageFile(names[i], x_checked_image[i], TRUE)]
                      /\ base_count' = base_count + Len(names)
                 ELSE /\ lastSaved' = <<>>
                      /\ UNCHANGED <<fs, base_count>>
              /\ IF SavesGrid
                 THEN all_samples' = Append(all_samples,
                          [call |-> samplerCalls, imgs |-> x_checked_image])
                 ELSE UNCHANGED all_samples
    /\ IF bi + 1 < Len(data)
       THEN /\ bi' = bi + 1
            /\ n' = n
       ELSE /\ bi' = 0
            /\ n' = n + 1
    /\ pc' = IF LoopDone(n') THEN "grid" ELSE "loop"
    /\ UNCHANGED <<opt, env, data, grid_count, start_code, randnCalls, xT_seen,
                   samplerCalls, step, processList, process2List, lastFrames,
                   gridWrites, vid>>

\* lines 421-434 after the loops: torch.stack raises on an empty list; otherwise
\* one grid of every buffered batch is saved.
Terminal ==
    /\ pc = "grid"
    /\ IF ~SavesGrid
       THEN /\ pc' = "done"
            /\ UNCHANGED <<gridWrites, grid_count>>
       ELSE IF all_samples = <<>>
       THEN /\ pc' = "stack_failed"
            /\ UNCHANGED <<gridWrites, grid_count>>
       ELSE /\ gridWrites' = Append(gridWrites,
                                [name |-> GridName(grid_count),
                                 batches |-> [k \in DOMAIN all_samples |-> all_samples[k].call],
                                 wm |-> TRUE])
            /\ grid_count' = grid_count + 1
            /\ pc' = "done"
    /\ UNCHANGED <<opt, env, data, n, bi, base_count, start_code, randnCalls,
                   xT_seen, samplerCalls, step, processList, process2List, fs,
                   lastFrames, batch, lastSaved, all_samples, vid>>

Next ==
    \/ Startup
    \/ SamplerCall
    \/ SaveStep
    \/ SamplerReturn
    \/ SamplerRaise
    \/ SaveImages
    \/ PostProcess
    \/ Terminal

\* Runs over every option and directory content; one decodable picture and
\* a classifier that flags nothing.
Init ==
    InitMain(Options(0..MaxIter, Bool, {16}, {16}),
             Surroundings(PreSets, {{}, {PngName(0)}}, 0..MaxLines, 0..MaxSteps,
                          {TRUE}, {{"gen"}}, {FALSE}))
Spec == Init /\ [][Next]_vars

\* Runs of one batch at most per prompt-file line, with two decodable pictures
\* (one of them the placeholder's), two image sizes, a classifier that may
\* flag any image, and the placeholder asset present or missing.
InitSafety ==
    InitMain(Options(0..1, {FALSE}, {8, 16}, {16}),
             Surroundings({{}}, {{}}, 0..1, {1},
                          Bool, {{"gen", "rick"}}, {TRUE}))
SpecSafety == InitSafety /\ [][Next]_vars


---------------------------------------------------------------------------
\* Quantities the properties speak of.
StartCount(d) == Cardinality(IF d = "samples" THEN env.samples ELSE env.process)
CounterNames(first, k) == {PngName(first + j) : j \in 0..(k - 1)}
Started == pc # "start"
\* the run got through both loops
LoopsOver == pc \in {"grid", "done", "stack_failed"}
\* saveImages calls made so far
Flushes == IF pc \in {"sampling", "flush", "sampler_failed"}
           THEN samplerCalls - 1 ELSE samplerCalls
RECURSIVE Flatten(_)
Flatten(ss) == IF ss = <<>> THEN <<>> ELSE Head(ss) \o Flatten(Tail(ss))

\* C1: without --skip_save, a run of N batches of size B ends with the sample
\* counter at the start-up entry count plus N*B; the N*B files written carry
\* the consecutive numbers from the start-up count on, and none of them has
\* the name of a file present at start-up or written earlier in the run.
C1_CounterNoCollision ==
    (pc = "done" /\ ~opt.skip_save) =>
        LET written == opt.n_iter * Len(data) * opt.n_samples
        IN  /\ base_count = Cardinality(env.samples) + written
            /\ fs["samples"].count = written
            /\ fs["samples"].written = CounterNames(Cardinality(env.samples), written)
            /\ Cardinality(fs["samples"].written) = written
            /\ fs["samples"].written \cap env.samples = {}
            /\ fs["samples"].clobbered = {}

\* C2: with --skip_save no file is written into samples/, the directory holds
\* what it held at start-up and the sample counter keeps its start-up value,
\* at every point of every run.
C2_SkipSaveWritesNothing ==
    (Started /\ opt.skip_save) =>
        /\ fs["samples"].count = 0
        /\ fs["samples"].written = {}
        /\ fs["samples"].present = env.samples
        /\ base_count = Cardinality(env.samples)
        /\ lastSaved = <<>>
FullBatches == \A k \in DOMAIN data : Len(data[k]) = opt.n_samples
C2_Witness ==
    /\ pc = "done" /\ opt.skip_save /\ FullBatches
    /\ opt.n_iter >= 2 /\ opt.n_samples >= 2
    /\ samplerCalls = opt.n_iter * Len(data)
    /\ env.samples # {}

\* C3: with --skip_grid no grid file is written and the grid buffer stays
\* empty; without it no grid file is written before the loops are over, and
\* once the run is past them exactly one grid file has been written, holding
\* every batch of the run (n_iter times the number of prompt batches).
C3_OneGridUnlessSkipped ==
    /\ opt.skip_grid => (gridWrites = <<>> /\ all_samples = <<>>)
    /\ ~(pc \in {"done", "stack_failed"}) => gridWrites = <<>>
    /\ (~opt.skip_grid /\ pc \in {"done", "stack_failed"}) =>
          /\ Len(gridWrites) = 1
          /\ gridWrites[1].batches = [k \in 1..(opt.n_iter * Len(data)) |-> k]

\* C6: with --fixed_code the start code is drawn once, at start-up, with shape
\* (n_samples, C, H//f, W//f), and every sampler invocation of the run gets
\* that value as x_T; without it no draw is made and every invocation gets None.
C6_StartCodeFixed ==
    Started =>
        /\ start_code = IF opt.fixed_code
                        THEN [draw |-> 1,
                              shape |-> <<opt.n_samples, LatentC,
                                          opt.H \div DownF, opt.W \div DownF>>]
                        ELSE None
        /\ randnCalls = IF opt.fixed_code THEN 1 ELSE 0
        /\ xT_seen \subseteq {start_code}
        /\ samplerCalls > 0 => xT_seen = {start_code}
C6_Witness ==
    /\ pc = "done" /\ opt.fixed_code /\ FullBatches
    /\ opt.n_iter >= 2 /\ Len(data) >= 2
    /\ samplerCalls = opt.n_iter * Len(data)
    /\ xT_seen = {start_code} /\ start_code # None
C6_WitnessNone ==
    /\ pc = "done" /\ ~opt.fixed_code
    /\ samplerCalls >= 2 /\ xT_seen = {None}

\* C8: every prompt batch holds exactly n_samples prompts, for a literal
\* prompt and for a prompt file of any number of lines; the batches hold the
\* lines in order, each once, none is empty, and a run that gets through the
\* loops has consumed each batch once per outer iteration.
C8_BatchesOfBatchSize ==
    Started =>
        /\ \A k \in DOMAIN data : Len(data[k]) = opt.n_samples
        /\ \A k \in DOMAIN data : data[k] # <<>>
        /\ opt.from_file => Flatten(data) = env.lines
        /\ ~opt.from_file => data = << [i \in 1..opt.n_samples |-> CliPrompt] >>
        /\ LoopsOver => samplerCalls = opt.n_iter * Len(data)

\* C7 as claimed: in samples, process and process2 alike the names written
\* during a run are the values of a counter that starts at the number of
\* files the directory held at start-up, so no name is written twice and no
\* file that pre-existed or was written by an earlier batch is overwritten.
\* (Stated for the runs that find samples/ holding the files 0..k-1 of earlier
\* runs, where the sample names cannot collide: see C1 for the others.)
TidySamples == env.samples = CounterNames(0, Cardinality(env.samples))
C7_EveryDirCountsFromStartup ==
    (Started /\ TidySamples) =>
        \A d \in Dirs :
            /\ fs[d].written = CounterNames(StartCount(d), fs[d].count)
            /\ Cardinality(fs[d].written) = fs[d].count
            /\ fs[d].clobbered = {}

\* C7 amended: only samples/ has a counter that starts at the start-up entry
\* count and runs on through the run, so no sample name is written twice in a
\* run, and a file that pre-existed is overwritten exactly when its name is one
\* of those counter values. In process/ and process2/ the counter restarts at
\* 0 in every batch: each batch writes the names 0..m-1 for its m frames, a
\* pre-existing file of such a name is overwritten, and from the second batch
\* on every frame overwrites the frame of that name of the batch before.
FramesPerBatch == env.steps * opt.n_samples
C7_SamplesCountOnPreviewsRestart ==
    Started =>
        /\ fs["samples"].written = CounterNames(Cardinality(env.samples), fs["samples"].count)
        /\ Cardinality(fs["samples"].written) = fs["samples"].count
        /\ base_count = Cardinality(env.samples) + fs["samples"].count
        /\ fs["samples"].clobbered = fs["samples"].written \cap env.samples
        /\ \A d \in {"process", "process2"} :
              /\ \A k \in DOMAIN lastFrames[d] :
                    lastFrames[d][k].name.num = Fmt(k - 1, SampleWidth)
              /\ fs[d].count = Flushes * FramesPerBatch
              /\ fs[d].written = IF Flushes = 0 THEN {} ELSE CounterNames(0, FramesPerBatch)
              /\ fs[d].clobbered = IF Flushes >= 2 THEN fs[d].written
                                   ELSE fs[d].written \cap env.process
C7_Witness ==
    /\ pc = "done"
    /\ ~opt.skip_save /\ env.samples = {PngName(0)} /\ fs["samples"].count >= 4
    /\ fs["samples"].clobbered = {}
    /\ Flushes >= 2 /\ FramesPerBatch >= 2
    /\ env.process = {} /\ fs["process"].clobbered # {}
    /\ fs["process2"].count > Cardinality(fs["process2"].written)

\* C10: the two snapshot lists have the same length, one entry each per
\* callback of the running sampler invocation; outside a sampler invocation
\* and the flush that follows it both are empty (at the start of every
\* invocation, when the final latent is decoded, at the end of the run); and
\* the frames a flush writes come from the snapshots of that batch alone, one
\* frame per snapshot and batch element, in order.
SnapshotsOf(call, trace) ==
    [i \in 1..env.steps |->
        [call |-> call, step |-> i - 1, trace |-> trace, size |-> opt.n_samples]]
C10_SnapshotListsFlushed ==
    /\ Len(processList) = Len(process2List)
    /\ pc \in {"sampling", "flush", "sampler_failed"} =>
          /\ Len(processList) = step
          /\ processList = SubSeq(SnapshotsOf(samplerCalls, "prev"), 1, step)
          /\ process2List = SubSeq(SnapshotsOf(samplerCalls, "x0"), 1, step)
    /\ ~(pc \in {"sampling", "flush", "sampler_failed"}) =>
          (processList = <<>> /\ process2List = <<>>)
    /\ (pc = "sampling" /\ step = 0) => (processList = <<>> /\ process2List = <<>>)
    /\ Flushes >= 1 =>
          \A d \in {"process", "process2"} :
              /\ Len(lastFrames[d]) = env.steps * opt.n_samples
              /\ \A k \in DOMAIN lastFrames[d] :
                    /\ lastFrames[d][k].snap =
                          SnapshotsOf(Flushes, IF d = "process" THEN "prev" ELSE "x0")
                              [((k - 1) \div opt.n_samples) + 1]
                    /\ lastFrames[d][k].elem = (k - 1) % opt.n_samples
C10_Witness ==
    /\ pc = "sampling" /\ step = 0
    /\ samplerCalls >= 2 /\ env.steps >= 2 /\ opt.n_samples >= 2
    /\ processList = <<>> /\ process2List = <<>>
    /\ Len(lastFrames["process"]) = 4 /\ Len(lastFrames["process2"]) = 4

---------------------------------------------------------------------------
\* check_safety and what becomes of its result (specification SpecSafety).
Checked == batch.call > 0
Batch == 1..opt.n_samples
Placeholder(h, w) == [px |-> "rick", h |-> h, w |-> w]
SavedAndBuffered(imgs) ==
    /\ ~opt.skip_save =>
          /\ Len(lastSaved) = Len(imgs)
          /\ \A i \in DOMAIN imgs : lastSaved[i].img = imgs[i]
    /\ ~opt.skip_grid =>
          /\ all_samples # <<>>
          /\ all_samples[Len(all_samples)].call = batch.call
          /\ all_samples[Len(all_samples)].imgs = imgs

\* C4 as claimed: an image the classifier flags comes back, when the
\* placeholder asset loads, as the placeholder resized to the image's (H, W),
\* which differs from the pre-filter decode; an unflagged image comes back as
\* the classifier returned it; the batch returned is as long as the verdict
\* list, and it is what is saved as samples and added to the grid.
C4_FlaggedReplacedAndDiffers ==
    Checked =>
        /\ Len(batch.x_checked_image) = Len(batch.has_nsfw_concept)
        /\ \A i \in Batch :
              /\ (batch.verdicts[i] /\ env.asset_ok) =>
                    /\ batch.x_checked_image[i] = Placeholder(batch.decode[i].h, batch.decode[i].w)
                    /\ batch.x_checked_image[i] # batch.decode[i]
              /\ ~batch.verdicts[i] => batch.x_checked_image[i] = batch.classified[i]
        /\ SavedAndBuffered(batch.x_checked_image)

\* C4 amended: as claimed, except that the replaced image differs from the
\* pre-filter decode only when that decode is not itself the picture of the
\* resized placeholder.
C4_FlaggedReplaced ==
    Checked =>
        /\ Len(batch.x_checked_image) = Len(batch.has_nsfw_concept)
        /\ Len(batch.x_checked_image) = opt.n_samples
        /\ \A i \in Batch :
              /\ (batch.verdicts[i] /\ env.asset_ok) =>
                    /\ batch.x_checked_image[i] = Placeholder(batch.decode[i].h, batch.decode[i].w)
                    /\ batch.decode[i].px # "rick" =>
                          batch.x_checked_image[i] # batch.decode[i]
              /\ ~batch.verdicts[i] => batch.x_checked_image[i] = batch.classified[i]
        /\ SavedAndBuffered(batch.x_checked_image)
C4_Witness ==
    /\ Checked /\ env.asset_ok /\ opt.H # opt.W
    /\ opt.n_samples >= 2 /\ ~opt.skip_save /\ ~opt.skip_grid
    /\ batch.verdicts[1] /\ ~batch.verdicts[2]
    /\ batch.decode[1].px = "gen" /\ batch.decode[2].px = "gen"
    /\ batch.x_checked_image[1].px = "rick"
    /\ lastSaved[1].img.px = "rick" /\ lastSaved[2].img.px = "gen"

\* C5: when the replacement of a flagged image fails (the asset does not
\* open), load_replacement hands back its input: the image check_safety
\* returns is the classifier's, it is what is saved and buffered, the verdict
\* list still flags it, and the run goes on: it fails nowhere but where a run
\* without flagged images fails too (a short prompt batch, an empty grid).
C5_FailedReplacementPassesThrough ==
    /\ (Checked /\ ~env.asset_ok) =>
          /\ \A i \in Batch :
                batch.verdicts[i] =>
                    /\ batch.x_checked_image[i] = batch.classified[i]
                    /\ batch.has_nsfw_concept[i]
          /\ batch.has_nsfw_concept = batch.verdicts
          /\ SavedAndBuffered(batch.classified)
    /\ Checked => pc # "stack_failed"
    /\ pc = "sampler_failed" => Len(Prompts) # opt.n_samples
C5_Witness ==
    /\ pc = "done" /\ Checked /\ ~env.asset_ok
    /\ ~opt.skip_save /\ ~opt.skip_grid
    /\ batch.verdicts[1] /\ batch.decode[1].px = "gen"
    /\ batch.classified[1].px = "gen"
    /\ lastSaved[1].img = batch.decode[1]
    /\ Len(gridWrites) = 1

---------------------------------------------------------------------------
\* scripts/make_video.py (specification SpecVideo).

\* A directory entry: its name and, for cv2.imread, the picture it holds.
Entry(k, ext, w, h) == [stem |-> k, ext |-> ext, w |-> w, h |-> h]
RECURSIVE Listings(_)
\* the listings of k entries, in the order os.listdir gives them
Listings(k) ==
    IF k = 0 THEN {<<>>}
    ELSE {Append(l, Entry(k, e[1], e[2], e[3])) :
            l \in Listings(k - 1),
            e \in {<<".png", 16, 8>>, <<".png", 8, 8>>, <<".txt", 16, 8>>}}
Folders == UNION {Listings(k) : k \in 0..MaxFiles}

\* img.endswith(".png")
IsPng(e) == e.ext = ".png"
PngImages(listing) == SelectSeq(listing, IsPng)

\* cv2.imread: the frame of a file, of shape (height, width, layers)
Imread(e) == [file |-> e.stem, shape |-> <<e.h, e.w, 3>>]
\* height, width, layers = frame.shape; the writer takes (width, height)
FrameSize_Swapped(frame) == <<frame.shape[1], frame.shape[2]>>
FrameSize(frame) == <<frame.shape[2], frame.shape[1]>>

VideoName(k) == IF k = 1 THEN "video1.avi" ELSE "video2.avi"

\* write_video(video_name, image_folder), the k-th call of the script;
\* images[0] raises IndexError when no name ends in ".png".
WriteVideo(k) ==
    /\ vid.pc = <<"call", k>>
    /\ LET images == PngImages(vid.folders[k])
       IN  IF images = <<>>
           THEN vid' = [vid EXCEPT !.pc = <<"failed", k>>]
           ELSE vid' = [vid EXCEPT
                    !.pc = IF k = 1 THEN <<"call", 2>> ELSE <<"done", k>>,
                    !.writers = Append(@,
                        [video_name |-> VideoName(k),
                         fourcc     |-> 0,
                         fps        |-> Fps,
                         frameSize  |-> FrameSize(Imread(images[1])),
                         frames     |-> [i \in DOMAIN images |-> Imread(images[i])],
                         released   |-> TRUE])]
    /\ UNCHANGED mainVars

NextVideo == WriteVideo(1) \/ WriteVideo(2)

\* The script on its own: txt2img.py is not running (its options at their
\* argparse defaults), and the two folders hold any listings.
Defaults ==
    [skip_save |-> FALSE, skip_grid |-> FALSE, fixed_code |-> FALSE,
     n_iter |-> 2, n_samples |-> 3, from_file |-> FALSE, H |-> 512, W |-> 512]
InitVideo ==
    InitVars({Defaults},
             Surroundings({{}}, {{}}, {0}, {0}, {TRUE}, {{"gen"}}, {FALSE}),
             "off",
             [pc : {<<"call", 1>>}, folders : Folders \X Folders, writers : {<<>>}])
SpecVideo == InitVideo /\ [][NextVideo]_vars

\* The .png entries of a listing and whether their pictures have one size.
Pngs(k) == SelectSeq(vid.folders[k], LAMBDA e : e.ext = ".png")
Uniform(k) == \A i, j \in DOMAIN Pngs(k) : Pngs(k)[i].w = Pngs(k)[j].w /\ Pngs(k)[i].h = Pngs(k)[j].h
Called(k) == vid.pc \in {<<"failed", k>>, <<"done", k>>} \/ (k = 1 /\ vid.pc[2] = 2)
WriterOf(k) == vid.writers[k]

\* C9: write_video on a folder with K >= 1 entries ending in .png, of one size
\* W x H, opens a 5-fps writer of frame size (W, H), the size of the first
\* listed .png, and writes K frames, one per .png entry in listing order,
\* other entries ignored; on a folder with no such entry it fails with no
\* writer opened and no frame written, and a failed first call leaves the
\* second call unmade.
C9_VideoFramesInOrder ==
    /\ \A k \in {1, 2} :
          (Called(k) /\ Pngs(k) # <<>> /\ Uniform(k)) =>
              /\ Len(vid.writers) >= k
              /\ WriterOf(k).fps = 5
              /\ WriterOf(k).frameSize = <<Pngs(k)[1].w, Pngs(k)[1].h>>
              /\ Len(WriterOf(k).frames) = Len(Pngs(k))
              /\ \A i \in DOMAIN Pngs(k) :
                    /\ WriterOf(k).frames[i].file = Pngs(k)[i].stem
                    /\ WriterOf(k).frames[i].shape[2] = WriterOf(k).frameSize[1]
                    /\ WriterOf(k).frames[i].shape[1] = WriterOf(k).frameSize[2]
    /\ (Called(1) /\ Pngs(1) = <<>>) => (vid.pc = <<"failed", 1>> /\ vid.writers = <<>>)
    /\ (Called(2) /\ Pngs(2) = <<>>) => (vid.pc = <<"failed", 2>> /\ Len(vid.writers) = 1)
    /\ vid.pc = <<"failed", 1>> => ~Called(2)
C9_Witness ==
    /\ vid.pc = <<"done", 2>>
    /\ Len(vid.folders[1]) = 2 /\ Len(Pngs(1)) = 1
    /\ Len(Pngs(2)) = 2 /\ Uniform(2) /\ Pngs(2)[1].w # Pngs(2)[1].h
    /\ Len(WriterOf(2).frames) = 2
C9_WitnessEmpty ==
    /\ vid.pc = <<"failed", 1>> /\ Len(vid.folders[1]) >= 1 /\ Pngs(2) # <<>>

====
